---- MODULE Spec2Model ----
(***************************************************************************)
(* Model of the ESG dashboard (src/makeit.py): the SDG keyword table, the  *)
(* snippet classifier map_snippet_to_sdgs, the sentiment labeler           *)
(* analyze_sentiment, and the script run main() with its session state,    *)
(* aggregation of SDG counts and article filter.                           *)
(*                                                                         *)
(* Text is a TLA+ string (ASCII).  A polarity or subjectivity score is an  *)
(* integer number of hundredths: 21 stands for 0.21.                       *)
(***************************************************************************)
EXTENDS Integers, Sequences, FiniteSets, TLC

(***************************************************************************)
(* Bounds of the model.                                                    *)
(***************************************************************************)
\* texts handed to the classifier are concatenations of at most MaxFrags fragments
MaxFrags == 2
\* the scraper returns at most MaxArticles articles
MaxArticles == 2

(***************************************************************************)
(* Program constants.                                                      *)
(***************************************************************************)
\* scores are hundredths: polarity in -PolarityScale..PolarityScale
PolarityScale == 100
\* makeit.py:152 "polarity > 0.2" and makeit.py:154 "polarity < -0.2", in hundredths
PositiveThreshold == 20
NegativeThreshold == -20
\* makeit.py:96 the only status that is not an error
HTTP_OK == 200

\* variant of the table with a blank keyword in an entry
SDG_KEYWORDS_BlankKeyword ==
  << [sdg |-> "No Poverty (SDG1)",
      keywords |-> <<"poverty", "", "poverty reduction">>,
      color |-> "#e5243b"] >>

\* makeit.py:27-84, in dictionary (insertion) order
SDG_KEYWORDS ==
  << [sdg |-> "No Poverty (SDG1)",
      keywords |-> <<"poverty", "financial inclusion", "poverty reduction">>,
      color |-> "#e5243b"],
     [sdg |-> "Good Health and Well-being (SDG3)",
      keywords |-> <<"health", "wellbeing", "mental health", "healthcare">>,
      color |-> "#4c9f38"],
     [sdg |-> "Gender Equality (SDG5)",
      keywords |-> <<"gender equality", "women empowerment", "diversity", "inclusion">>,
      color |-> "#ff3a21"],
     [sdg |-> "Affordable and Clean Energy (SDG7)",
      keywords |-> <<"clean energy", "renewable", "solar", "wind", "energy efficiency">>,
      color |-> "#fcc30b"],
     [sdg |-> "Decent Work and Economic Growth (SDG8)",
      keywords |-> <<"economic growth", "jobs", "employment", "decent work">>,
      color |-> "#a21942"],
     [sdg |-> "Industry, Innovation and Infrastructure (SDG9)",
      keywords |-> <<"innovation", "infrastructure", "technology", "industry">>,
      color |-> "#fd6925"],
     [sdg |-> "Reduced Inequalities (SDG10)",
      keywords |-> <<"inequality", "equal opportunity", "inclusion", "fairness">>,
      color |-> "#dd1367"],
     [sdg |-> "Sustainable Cities and Communities (SDG11)",
      keywords |-> <<"sustainable cities", "urban", "communities", "housing">>,
      color |-> "#fd9d24"],
     [sdg |-> "Responsible Consumption and Production (SDG12)",
      keywords |-> <<"sustainable consumption", "waste", "recycling", "circular economy">>,
      color |-> "#bf8b2e"],
     [sdg |-> "Climate Action (SDG13)",
      keywords |-> <<"climate change", "carbon emissions", "climate action", "global warming">>,
      color |-> "#3f7e44"],
     [sdg |-> "Life Below Water (SDG14)",
      keywords |-> <<"marine", "oceans", "water pollution", "marine life">>,
      color |-> "#0a97d9"],
     [sdg |-> "Life on Land (SDG15)",
      keywords |-> <<"biodiversity", "forests", "land", "wildlife", "ecosystem">>,
      color |-> "#56c02b"],
     [sdg |-> "Peace, Justice and Strong Institutions (SDG16)",
      keywords |-> <<"peace", "justice", "strong institutions", "governance">>,
      color |-> "#00689d"],
     [sdg |-> "Partnerships for the Goals (SDG17)",
      keywords |-> <<"partnership", "collaboration", "sdg goals", "sustainable development goals">>,
      color |-> "#19486a"] >>

\* the keys of SDG_KEYWORDS
SdgNames == { SDG_KEYWORDS[n].sdg : n \in 1..Len(SDG_KEYWORDS) }

(***************************************************************************)
(* Python string operations used by the classifier.                       *)
(***************************************************************************)
UpperChars == "ABCDEFGHIJKLMNOPQRSTUVWXYZ"
LowerChars == "abcdefghijklmnopqrstuvwxyz"

\* str.lower() on one ASCII character
LowerChar(c) ==
  IF \E n \in 1..Len(UpperChars) : SubSeq(UpperChars, n, n) = c
  THEN LET n == CHOOSE m \in 1..Len(UpperChars) : SubSeq(UpperChars, m, m) = c
       IN  SubSeq(LowerChars, n, n)
  ELSE c

RECURSIVE StrLowerFrom(_, _)
StrLowerFrom(text, n) ==
  IF n > Len(text) THEN ""
  ELSE LowerChar(SubSeq(text, n, n)) \o StrLowerFrom(text, n + 1)

\* text.lower()
StrLower(text) == StrLowerFrom(text, 1)

RECURSIVE StrFindFrom(_, _, _)
StrFindFrom(sub, text, n) ==
  IF n + Len(sub) - 1 > Len(text) THEN FALSE
  ELSE IF SubSeq(text, n, n + Len(sub) - 1) = sub THEN TRUE
  ELSE StrFindFrom(sub, text, n + 1)

\* variant that tests text.startswith(sub)
StrStartsWith(sub, text) ==
  Len(sub) <= Len(text) /\ SubSeq(text, 1, Len(sub)) = sub

\* the Python expression "sub in text" on two strings: a left-to-right scan
StrIn(sub, text) == StrFindFrom(sub, text, 1)

\* the ASCII characters for which str.isspace() holds: space, \t, \n, \r,
\* \f, and the characters 11 (vertical tab) and 28 to 31 (separators)
WhitespaceChars == " \t\n\r\f" \o ""

IsSpace(c) == \E n \in 1..Len(WhitespaceChars) : SubSeq(WhitespaceChars, n, n) = c

RECURSIVE StrLStrip(_)
StrLStrip(text) ==
  IF text = "" THEN ""
  ELSE IF IsSpace(SubSeq(text, 1, 1)) THEN StrLStrip(SubSeq(text, 2, Len(text)))
  ELSE text

RECURSIVE StrRStrip(_)
StrRStrip(text) ==
  IF text = "" THEN ""
  ELSE IF IsSpace(SubSeq(text, Len(text), Len(text)))
       THEN StrRStrip(SubSeq(text, 1, Len(text) - 1))
  ELSE text

\* text.strip()
StrStrip(text) == StrRStrip(StrLStrip(text))

(***************************************************************************)
(* map_snippet_to_sdgs (makeit.py:137-144).                                *)
(***************************************************************************)
RECURSIVE AnyKeywordFrom(_, _, _)
\* any(keyword in text_lower for keyword in data["keywords"]), short-circuit
AnyKeywordFrom(keywords, text_lower, n) ==
  IF n > Len(keywords) THEN FALSE
  ELSE IF StrIn(keywords[n], text_lower) THEN TRUE
  ELSE AnyKeywordFrom(keywords, text_lower, n + 1)

RECURSIVE MapLoop(_, _, _)
\* the for loop over SDG_KEYWORDS.items(), from entry n on
MapLoop(text_lower, n, matched_sdgs) ==
  IF n > Len(SDG_KEYWORDS) THEN matched_sdgs
  ELSE MapLoop(text_lower, n + 1,
               IF AnyKeywordFrom(SDG_KEYWORDS[n].keywords, text_lower, 1)
               THEN matched_sdgs \cup {SDG_KEYWORDS[n].sdg}
               ELSE matched_sdgs)

RECURSIVE MapLoopFirstWins(_, _, _)
\* variant that stops at the first matching category
MapLoopFirstWins(text_lower, n, matched_sdgs) ==
  IF n > Len(SDG_KEYWORDS) THEN matched_sdgs
  ELSE IF AnyKeywordFrom(SDG_KEYWORDS[n].keywords, text_lower, 1)
       THEN matched_sdgs \cup {SDG_KEYWORDS[n].sdg}
       ELSE MapLoopFirstWins(text_lower, n + 1, matched_sdgs)

\* variant of map_snippet_to_sdgs with a break after the first match
map_snippet_first_wins(text) == MapLoopFirstWins(StrLower(text), 1, {})

\* map_snippet_to_sdgs(text) for a str argument; the returned list is built
\* from a set, so it has no duplicates and its order carries no meaning: it
\* is modelled as the set
map_snippet_to_sdgs(text) == MapLoop(StrLower(text), 1, {})

(***************************************************************************)
(* analyze_sentiment (makeit.py:146-163).  The scorer (TextBlob) is        *)
(* external: its outcome is an input of the model, either a pair of scores *)
(* or an exception.                                                        *)
(***************************************************************************)
Polarities == (0 - PolarityScale)..PolarityScale
Subjectivities == {0, PolarityScale}

\* what TextBlob(text).sentiment can do
ScorerOutcomes ==
  [raises : {FALSE}, polarity : Polarities, subjectivity : Subjectivities]
  \cup {[raises |-> TRUE, polarity |-> 0, subjectivity |-> 0]}

\* variant of the label assignment with non-strict comparisons
SentimentLabelNonStrict(polarity) ==
  IF polarity >= PositiveThreshold THEN "Positive"
  ELSE IF polarity <= NegativeThreshold THEN "Negative"
  ELSE "Neutral"

\* makeit.py:152-157
SentimentLabel(polarity) ==
  IF polarity > PositiveThreshold THEN "Positive"
  ELSE IF polarity < NegativeThreshold THEN "Negative"
  ELSE "Neutral"

\* the value analyze_sentiment returns when the scorer returned scores
SentimentDict(score) ==
  [sentiment |-> SentimentLabel(score.polarity),
   polarity |-> score.polarity,
   subjectivity |-> score.subjectivity]

\* analyze_sentiment has no try/except: an exception of the scorer leaves it
analyze_sentiment_raises(score) == score.raises

NoResult == [sentiment |-> "", polarity |-> 0, subjectivity |-> 0]

(***************************************************************************)
(* State.                                                                  *)
(***************************************************************************)
VARIABLES
  \* one call of the classifier on one text
  c_text,            \* the argument text
  c_sdgs,            \* the value map_snippet_to_sdgs returned
  c_score,           \* what the scorer did inside analyze_sentiment
  c_sentiment,       \* the value analyze_sentiment returned
  c_pc,              \* "start", "mapped", "analyzed", "raised"; "off" in the dashboard
  \* the dashboard session
  articles,          \* st.session_state.articles
  \* locals of the current script run main()
  pc,                \* "idle", "classify", "aggregate", "filter", "done", "raised"
  company,           \* the Company Name text input
  ticker_symbol,     \* the Stock Ticker text input
  fetched,           \* this run executed the fetch branch (makeit.py:294-298)
  idx,               \* position of the for loop of makeit.py:296
  sdg_counts,        \* the defaultdict of makeit.py:303
  selected_sdgs,     \* value of the "Filter by SDG" multiselect
  sentiment_filter,  \* value of the "Filter by Sentiment" selectbox
  filtered_articles, \* the list of makeit.py:367
  rendered,          \* which branch of the article section was rendered
  error,             \* the exception that ended the run, "" if none
  refresh,           \* the "Refresh News" button was evaluated and returned True
  http_requests,     \* number of requests.get calls of this run (makeit.py:94)
  http_status,       \* status of the last response of this run, 0 if none
  \* history, not read by the program
  fetched_for,       \* the company name the stored articles were scraped for
  \* the chat app (src/chat_llm.py)
  messages,          \* st.session_state.messages
  system_prompt,     \* value of the "System Prompt" text area in this run
  prompt,            \* value of st.chat_input in this run, "" if none
  messages_for_llm,  \* the list the last run handed to the backend, <<>> if none
  chat_pc,           \* the last run: "idle", "answered", "raised", "interrupted", "cleared"
  \* the prompt suggestions (src/smart_searc.py)
  PROMPTS,           \* the prompt table loaded at start-up
  input_text,        \* the argument of get_suggested_prompts
  suggestions,       \* the list get_suggested_prompts returned
  search_pc          \* "idle", "returned"

cvars == <<c_text, c_sdgs, c_score, c_sentiment, c_pc>>
runio == <<refresh, http_requests, http_status>>
locals == <<company, ticker_symbol, fetched, idx, sdg_counts, selected_sdgs,
            sentiment_filter, filtered_articles, rendered, error, runio>>
dashvars == <<cvars, articles, fetched_for, pc, locals>>
chatvars == <<messages, system_prompt, prompt, messages_for_llm, chat_pc>>
searchvars == <<PROMPTS, input_text, suggestions, search_pc>>
appvars == <<chatvars, searchvars>>
vars == <<dashvars, appvars>>

(***************************************************************************)
(* Inputs.                                                                 *)
(***************************************************************************)
Fragments ==
  {"Health", "care ", "In", "clusion ", "WIND ", "is", "land ", "nothing relevant "}

RECURSIVE FragTexts(_)
FragTexts(n) ==
  IF n = 0 THEN {""}
  ELSE { f \o t : f \in Fragments, t \in FragTexts(n - 1) }

\* the texts the classifier is called on
Texts == UNION { FragTexts(n) : n \in 0..MaxFrags }

\* summaries of scraped articles
\* texts of the first paragraph of an article of the result page
Summaries ==
  {"",
   "The company invested in renewable energy and improved gender equality.",
   " Inclusion and jobs\n"}

NO_SUMMARY == "No summary available."

\* an <article class="post"> tag of the result page, as far as the scraper
\* reads it: "post" has a summary paragraph with the given text,
\* "no_summary" has none, and parsing an "unparseable" tag raises
\* (makeit.py:103-131)
ArticleTags ==
  [kind : {"post"}, text : Summaries]
  \cup {[kind |-> "no_summary", text |-> ""], [kind |-> "unparseable", text |-> ""]}

\* the dictionary the scraper appends for a tag that parses
\* (makeit.py:121-130); only the summary is read by the classifier
ParseArticle(tag) ==
  [summary |-> IF tag.kind = "no_summary" THEN NO_SUMMARY ELSE StrStrip(tag.text)]

\* the articles the scraper can return
RawArticles == { ParseArticle(tag) : tag \in {t \in ArticleTags : t.kind # "unparseable"} }

RECURSIVE SeqsUpTo(_, _)
SeqsUpTo(S, n) ==
  IF n = 0 THEN {<<>>}
  ELSE LET shorter == SeqsUpTo(S, n - 1)
       IN  shorter \cup { Append(q, x) : q \in {r \in shorter : Len(r) = n - 1}, x \in S }

\* what the scorer does on the summaries of a session
ScorerSamples ==
  { o \in ScorerOutcomes :
      o.raises \/ (o.polarity \in {NegativeThreshold - 1, PositiveThreshold, PositiveThreshold + 1}
                   /\ o.subjectivity = 0) }

Companies == {"Apple", "Tesla"}
Tickers == {"AAPL"}
\* the ticker inputs tried with a company input: the ticker is read only by
\* the test of makeit.py:285, so one company is entered with its ticker, the
\* other without, and a blank company with either
TickersFor(c) ==
  CASE c = "Apple" -> Tickers
    [] c = "Tesla" -> {""}
    [] OTHER -> Tickers \cup {""}
SentimentChoices == {"All", "Positive", "Neutral", "Negative"}

(***************************************************************************)
(* The classifier called on one text (makeit.py:137-163).                  *)
(***************************************************************************)
ClassifierOff ==
  /\ c_text = ""
  /\ c_sdgs = {}
  /\ c_score = [raises |-> FALSE, polarity |-> 0, subjectivity |-> 0]
  /\ c_sentiment = NoResult
  /\ c_pc = "off"

\* matched = map_snippet_to_sdgs(text)
CallMapSnippet ==
  /\ c_pc = "start"
  /\ c_sdgs' = map_snippet_to_sdgs(c_text)
  /\ c_pc' = "mapped"
  /\ UNCHANGED <<appvars, c_text, c_score, c_sentiment, articles, fetched_for, pc, locals>>

\* result = analyze_sentiment(text), the scorer returning scores
CallAnalyzeSentiment ==
  /\ c_pc = "mapped"
  /\ \E score \in ScorerOutcomes :
       /\ ~analyze_sentiment_raises(score)
       /\ c_score' = score
       /\ c_sentiment' = SentimentDict(score)
  /\ c_pc' = "analyzed"
  /\ UNCHANGED <<appvars, c_text, c_sdgs, articles, fetched_for, pc, locals>>

\* result = analyze_sentiment(text), the scorer raising: the exception
\* leaves analyze_sentiment and nothing is returned
CallAnalyzeSentimentRaise ==
  /\ c_pc = "mapped"
  /\ \E score \in ScorerOutcomes :
       /\ analyze_sentiment_raises(score)
       /\ c_score' = score
  /\ c_pc' = "raised"
  /\ UNCHANGED <<appvars, c_text, c_sdgs, c_sentiment, articles, fetched_for, pc, locals>>

(***************************************************************************)
(* Aggregation of SDG counts (makeit.py:303-306).                          *)
(***************************************************************************)
\* sdg_counts[sdg] += 1 on a defaultdict(int)
Increment(counts, sdg) ==
  IF sdg \in DOMAIN counts
  THEN [counts EXCEPT ![sdg] = @ + 1]
  ELSE counts @@ (sdg :> 1)

RECURSIVE IncrementAll(_, _)
\* for sdg in art["sdgs"]: sdg_counts[sdg] += 1
IncrementAll(counts, sdgs) ==
  IF sdgs = {} THEN counts
  ELSE LET sdg == CHOOSE x \in sdgs : TRUE
       IN  IncrementAll(Increment(counts, sdg), sdgs \ {sdg})

RECURSIVE CountFrom(_, _, _)
\* for art in st.session_state.articles, from position n on
CountFrom(arts, n, counts) ==
  IF n > Len(arts) THEN counts
  ELSE CountFrom(arts, n + 1, IncrementAll(counts, arts[n].sdgs))

RECURSIVE CountUntilEmpty(_, _, _)
CountUntilEmpty(arts, n, counts) ==
  IF n > Len(arts) \/ arts[n].sdgs = {} THEN counts
  ELSE CountUntilEmpty(arts, n + 1, IncrementAll(counts, arts[n].sdgs))

\* variant that leaves the loop at the first article without any SDG
CountSdgsStopAtEmpty(arts) == CountUntilEmpty(arts, 1, <<>>)

\* variant whose loop starts at the second article
CountSdgsSkipFirst(arts) == CountFrom(arts, 2, <<>>)

\* variant that starts from a dense mapping, every category at 0
CountSdgsDense(arts) == CountFrom(arts, 1, [s \in SdgNames |-> 0])

\* the mapping sdg_counts after the loops of makeit.py:304-306
CountSdgs(arts) == CountFrom(arts, 1, <<>>)

RECURSIVE CountUntilKeyError(_, _, _)
CountUntilKeyError(arts, n, counts) ==
  IF n > Len(arts) \/ "sdgs" \notin DOMAIN arts[n] THEN counts
  ELSE CountUntilKeyError(arts, n + 1, IncrementAll(counts, arts[n].sdgs))

\* the mapping sdg_counts when art["sdgs"] of makeit.py:305 raises KeyError:
\* the articles before the first one without "sdgs" have been counted
CountSdgsPartial(arts) == CountUntilKeyError(arts, 1, <<>>)

\* art["sdgs"] raises KeyError for some article
CountRaises(arts) == \E n \in 1..Len(arts) : "sdgs" \notin DOMAIN arts[n]

(***************************************************************************)
(* The article filter (makeit.py:367-371).                                 *)
(***************************************************************************)
\* not selected_sdgs or any(sdg in art["sdgs"] for sdg in selected_sdgs)
PassesSdg(art, selected) ==
  selected = {} \/ \E sdg \in selected : sdg \in art.sdgs

\* the condition of the comprehension reads art["sentiment"]
ReadsSentiment(art, selected, choice) ==
  PassesSdg(art, selected) /\ choice # "All"

\* the condition of the list comprehension, with its short-circuit evaluation
Passes(art, selected, choice) ==
  /\ PassesSdg(art, selected)
  /\ (choice = "All" \/ art.sentiment.sentiment = choice)

RECURSIVE FilterFrom(_, _, _, _)
FilterFrom(arts, selected, choice, n) ==
  IF n > Len(arts) THEN <<>>
  ELSE IF Passes(arts[n], selected, choice)
       THEN <<arts[n]>> \o FilterFrom(arts, selected, choice, n + 1)
       ELSE FilterFrom(arts, selected, choice, n + 1)

RECURSIVE FilterFromReversed(_, _, _, _)
FilterFromReversed(arts, selected, choice, n) ==
  IF n > Len(arts) THEN <<>>
  ELSE IF Passes(arts[n], selected, choice)
       THEN FilterFromReversed(arts, selected, choice, n + 1) \o <<arts[n]>>
       ELSE FilterFromReversed(arts, selected, choice, n + 1)

\* variant that collects the passing articles newest first
FilterArticlesReversed(arts, selected, choice) == FilterFromReversed(arts, selected, choice, 1)

\* variant that combines the two filters with OR
PassesEither(art, selected, choice) ==
  \/ PassesSdg(art, selected)
  \/ choice = "All"
  \/ ("sentiment" \in DOMAIN art /\ art.sentiment.sentiment = choice)

RECURSIVE FilterFromEither(_, _, _, _)
FilterFromEither(arts, selected, choice, n) ==
  IF n > Len(arts) THEN <<>>
  ELSE IF PassesEither(arts[n], selected, choice)
       THEN <<arts[n]>> \o FilterFromEither(arts, selected, choice, n + 1)
       ELSE FilterFromEither(arts, selected, choice, n + 1)

FilterArticlesEither(arts, selected, choice) == FilterFromEither(arts, selected, choice, 1)

\* variant whose comprehension starts at the second article
FilterArticlesSkipFirst(arts, selected, choice) == FilterFrom(arts, selected, choice, 2)

\* filtered_articles = [art for art in articles if ...]
FilterArticles(arts, selected, choice) == FilterFrom(arts, selected, choice, 1)

\* the comprehension raises KeyError: an article whose "sentiment" is read has none
FilterRaises(arts, selected, choice) ==
  \E n \in 1..Len(arts) :
    ReadsSentiment(arts[n], selected, choice) /\ "sentiment" \notin DOMAIN arts[n]

\* display_article raises KeyError (makeit.py:205) on an article without "sentiment"
DisplayRaises(arts) == \E n \in 1..Len(arts) : "sentiment" \notin DOMAIN arts[n]

\* present_sdgs of makeit.py:354, as a set
PresentSdgs(arts) == UNION { arts[n].sdgs : n \in 1..Len(arts) }

(***************************************************************************)
(* The script run main() (makeit.py:266-380).  A run is sequential: pc is  *)
(* its position, and from "idle" to the end of the run exactly one action  *)
(* is enabled at a time, apart from the inputs it reads.  The locals of a  *)
(* run are dropped when it ends; st.session_state.articles survives.       *)
(***************************************************************************)
Min(a, b) == IF a <= b THEN a ELSE b

\* scrape_esgtoday_company_news (makeit.py:90-135): status is the status of
\* the one response, page the article tags of the result page; find_all
\* takes the first max_articles tags, then the tags whose parsing raises
\* are dropped
scrape_esgtoday_company_news(status, page, max_articles) ==
  IF status # HTTP_OK THEN <<>>
  ELSE LET found == SubSeq(page, 1, Min(max_articles, Len(page)))
           parsed == SelectSeq(found, LAMBDA tag : tag.kind # "unparseable")
       IN  [n \in 1..Len(parsed) |-> ParseArticle(parsed[n])]

\* variant that repeats the request once after a failed response
http_attempts_retry(status) == IF status # HTTP_OK THEN 2 ELSE 1

\* requests.get is called once per invocation (makeit.py:94), whatever the status
http_attempts(status) == 1

LocalsAtStart ==
  /\ fetched = FALSE
  /\ idx = 0
  /\ sdg_counts = <<>>
  /\ selected_sdgs = {}
  /\ sentiment_filter = "All"
  /\ filtered_articles = <<>>
  /\ rendered = ""
  /\ error = ""
  /\ refresh = FALSE
  /\ http_requests = 0
  /\ http_status = 0

DashInit ==
  /\ articles = <<>>
  /\ fetched_for = ""
  /\ pc = "idle"
  /\ company = ""
  /\ ticker_symbol = ""
  /\ LocalsAtStart

\* makeit.py:285-287: neither input given
RunEarlyReturn ==
  /\ pc = "idle"
  /\ company' = ""
  /\ ticker_symbol' = ""
  /\ rendered' = "info"
  /\ pc' = "done"
  /\ UNCHANGED <<appvars, cvars, articles, fetched_for, runio, fetched, idx, sdg_counts, selected_sdgs,
                 sentiment_filter, filtered_articles, error>>

\* makeit.py:293-295: the fetch branch up to the assignment of the scraped list
RunFetch ==
  /\ pc = "idle"
  /\ \E c \in Companies, pressed \in BOOLEAN,
        num_articles \in 1..MaxArticles, status \in {HTTP_OK, 503},
        page \in SeqsUpTo(ArticleTags, MaxArticles) :
     \E t \in TickersFor(c) :
       /\ (articles = <<>> \/ pressed)
       /\ company' = c
       /\ ticker_symbol' = t
       /\ articles' = scrape_esgtoday_company_news(status, page, num_articles)
       /\ refresh' = (articles # <<>> /\ pressed)
       /\ http_requests' = http_requests + http_attempts(status)
       /\ http_status' = status
       /\ fetched_for' = c
  /\ fetched' = TRUE
  /\ idx' = 1
  /\ pc' = IF articles' = <<>> THEN "aggregate" ELSE "classify"
  /\ UNCHANGED <<appvars, cvars, sdg_counts, selected_sdgs, sentiment_filter,
                 filtered_articles, rendered, error>>

\* makeit.py:293: the condition is false, the stored articles are kept
RunCached ==
  /\ pc = "idle"
  /\ \E c \in Companies \cup {""}, pressed \in BOOLEAN :
     \E t \in TickersFor(c) :
       /\ ~(c = "" /\ t = "")
       /\ ~(c # "" /\ (articles = <<>> \/ pressed))
       /\ company' = c
       /\ ticker_symbol' = t
  /\ pc' = "aggregate"
  /\ UNCHANGED <<appvars, cvars, articles, fetched_for, runio, fetched, idx, sdg_counts, selected_sdgs,
                 sentiment_filter, filtered_articles, rendered, error>>

\* makeit.py:297-298 for one article: both fields are stored
ClassifyArticle ==
  /\ pc = "classify"
  /\ \E score \in ScorerSamples :
       /\ ~analyze_sentiment_raises(score)
       /\ articles' = [articles EXCEPT ![idx] =
            [summary |-> @.summary,
             sdgs |-> map_snippet_to_sdgs(@.summary),
             sentiment |-> SentimentDict(score)]]
  /\ idx' = idx + 1
  /\ pc' = IF idx = Len(articles) THEN "aggregate" ELSE "classify"
  /\ UNCHANGED <<appvars, cvars, fetched_for, runio, company, ticker_symbol, fetched, sdg_counts, selected_sdgs,
                 sentiment_filter, filtered_articles, rendered, error>>

\* makeit.py:298: "sdgs" is stored, then the scorer raises inside
\* analyze_sentiment and the exception leaves main()
ClassifyScorerRaise ==
  /\ pc = "classify"
  /\ \E score \in ScorerSamples : analyze_sentiment_raises(score)
  /\ articles' = [articles EXCEPT ![idx] =
       [summary |-> @.summary,
        sdgs |-> map_snippet_to_sdgs(@.summary)]]
  /\ pc' = "raised"
  /\ error' = "ScorerError"
  /\ UNCHANGED <<appvars, cvars, fetched_for, runio, company, ticker_symbol, fetched, idx, sdg_counts,
                 selected_sdgs, sentiment_filter, filtered_articles, rendered>>

\* makeit.py:300-308: the counts are built from the stored articles
\* variant that builds the counts only in a run that fetched
AggregateCountsFetchedOnly ==
  /\ pc = "aggregate"
  /\ company # "" /\ articles # <<>>
  /\ ~CountRaises(articles)
  /\ IF fetched
     THEN /\ sdg_counts' = CountSdgs(articles)
          /\ IF DOMAIN sdg_counts' # {}
             THEN rendered' = "chart" /\ pc' = "filter"
             ELSE rendered' = "no_sdg_warning" /\ pc' = "done"
     ELSE sdg_counts' = sdg_counts /\ rendered' = rendered /\ pc' = "done"
  /\ UNCHANGED <<appvars, cvars, articles, fetched_for, runio, company, ticker_symbol, fetched, idx, selected_sdgs,
                 sentiment_filter, filtered_articles, error>>

AggregateCounts ==
  /\ pc = "aggregate"
  /\ company # "" /\ articles # <<>>
  /\ ~CountRaises(articles)
  /\ sdg_counts' = CountSdgs(articles)
  /\ IF DOMAIN sdg_counts' # {}
     THEN rendered' = "chart" /\ pc' = "filter"
     ELSE rendered' = "no_sdg_warning" /\ pc' = "done"
  /\ UNCHANGED <<appvars, cvars, articles, fetched_for, runio, company, ticker_symbol, fetched, idx, selected_sdgs,
                 sentiment_filter, filtered_articles, error>>

\* makeit.py:303-306: art["sdgs"] raises KeyError on an article never
\* classified, after the articles before it have been counted
AggregateKeyError ==
  /\ pc = "aggregate"
  /\ company # "" /\ articles # <<>>
  /\ CountRaises(articles)
  /\ sdg_counts' = CountSdgsPartial(articles)
  /\ pc' = "raised"
  /\ error' = "KeyError sdgs"
  /\ UNCHANGED <<appvars, cvars, articles, fetched_for, runio, company, ticker_symbol, fetched, idx,
                 selected_sdgs, sentiment_filter, filtered_articles, rendered>>

\* makeit.py:300, 379-380: nothing to aggregate
NoArticleSection ==
  /\ pc = "aggregate"
  /\ ~(company # "" /\ articles # <<>>)
  /\ rendered' = IF company # "" THEN "no_articles_warning" ELSE "none"
  /\ pc' = "done"
  /\ UNCHANGED <<appvars, cvars, articles, fetched_for, runio, company, ticker_symbol, fetched, idx, sdg_counts,
                 selected_sdgs, sentiment_filter, filtered_articles, error>>

\* makeit.py:354-376: the two filter widgets are read, the list is filtered
\* and every article of the result is displayed
FilterAndDisplay ==
  /\ pc = "filter"
  /\ \E selected \in SUBSET PresentSdgs(articles), choice \in SentimentChoices :
       /\ ~FilterRaises(articles, selected, choice)
       /\ selected_sdgs' = selected
       /\ sentiment_filter' = choice
       /\ filtered_articles' = FilterArticles(articles, selected, choice)
  /\ IF filtered_articles' = <<>>
     THEN rendered' = "no_match_warning" /\ pc' = "done" /\ error' = error
     ELSE IF DisplayRaises(filtered_articles')
          THEN rendered' = rendered /\ pc' = "raised" /\ error' = "KeyError display"
          ELSE rendered' = "articles" /\ pc' = "done" /\ error' = error
  /\ UNCHANGED <<appvars, cvars, articles, fetched_for, runio, company, ticker_symbol, fetched, idx, sdg_counts>>

\* makeit.py:370: art["sentiment"] raises KeyError inside the comprehension
FilterKeyError ==
  /\ pc = "filter"
  /\ \E selected \in SUBSET PresentSdgs(articles), choice \in SentimentChoices :
       /\ FilterRaises(articles, selected, choice)
       /\ selected_sdgs' = selected
       /\ sentiment_filter' = choice
  /\ pc' = "raised"
  /\ error' = "KeyError sentiment"
  /\ UNCHANGED <<appvars, cvars, articles, fetched_for, runio, company, ticker_symbol, fetched, idx, sdg_counts,
                 filtered_articles, rendered>>

\* the run ends, by return or by exception: its locals are gone
EndRun ==
  /\ pc \in {"done", "raised"}
  /\ pc' = "idle"
  /\ company' = ""
  /\ ticker_symbol' = ""
  /\ fetched' = FALSE
  /\ idx' = 0
  /\ sdg_counts' = <<>>
  /\ selected_sdgs' = {}
  /\ sentiment_filter' = "All"
  /\ filtered_articles' = <<>>
  /\ rendered' = ""
  /\ error' = ""
  /\ refresh' = FALSE
  /\ http_requests' = 0
  /\ http_status' = 0
  /\ UNCHANGED <<appvars, cvars, articles, fetched_for>>

(***************************************************************************)
(* The chat app (src/chat_llm.py).  A message is a record with a role and  *)
(* a content; a script run is one action.                                  *)
(***************************************************************************)
\* bound on the length of the stored history
MaxMessages == 4

DEFAULT_SYSTEM_PROMPT ==
  "You are a helpful AI assistant created by DeepSeek. \nYour responses should be informative, concise, and professional. \nIf you don't know the answer, say you don't know rather than making something up."

SystemPrompts == {DEFAULT_SYSTEM_PROMPT, "Answer in one word."}
ChatPrompts == {"hi", "why?"}
LLMResponses == {"hello", "because"}

Message(role, content) == [role |-> role, content |-> content]

\* the loop of chat_llm.py:41-45 over the stored history
HistoryForLlm(msgs) ==
  [n \in 1..Len(msgs) |->
     IF msgs[n].role = "user" THEN Message("user", msgs[n].content)
     ELSE Message("assistant", msgs[n].content)]

\* messages_for_llm as generate_response builds it (chat_llm.py:38-48) from
\* the system prompt, the stored history at the time of the call and its
\* argument
generate_response(sp, msgs, user_input) ==
  <<Message("system", sp)>> \o HistoryForLlm(msgs) \o <<Message("user", user_input)>>

ChatInit ==
  /\ messages = <<>>
  /\ system_prompt = DEFAULT_SYSTEM_PROMPT
  /\ prompt = ""
  /\ messages_for_llm = <<>>
  /\ chat_pc = "idle"

\* a run with no chat input and no button pressed
ChatRerun ==
  /\ \E sp \in SystemPrompts : system_prompt' = sp
  /\ prompt' = ""
  /\ messages_for_llm' = <<>>
  /\ chat_pc' = "idle"
  /\ UNCHANGED <<messages, searchvars, dashvars>>

\* chat_llm.py:31-33: Clear Conversation, then the rerun it requests
ClearConversation ==
  /\ \E sp \in SystemPrompts : system_prompt' = sp
  /\ messages' = <<>>
  /\ prompt' = ""
  /\ messages_for_llm' = <<>>
  /\ chat_pc' = "cleared"
  /\ UNCHANGED <<searchvars, dashvars>>

\* chat_llm.py:72-92: a submitted prompt, the backend returns a response
ChatTurn ==
  /\ Len(messages) + 2 <= MaxMessages
  /\ \E sp \in SystemPrompts, p \in ChatPrompts, response \in LLMResponses :
       LET stored == Append(messages, Message("user", p))
       IN  /\ system_prompt' = sp
           /\ prompt' = p
           /\ messages_for_llm' = generate_response(sp, stored, p)
           /\ messages' = Append(stored, Message("assistant", response))
  /\ chat_pc' = "answered"
  /\ UNCHANGED <<searchvars, dashvars>>

\* chat_llm.py:72-86: a submitted prompt, send_post_request_to_llm raises
ChatTurnRaise ==
  /\ Len(messages) + 1 <= MaxMessages
  /\ \E sp \in SystemPrompts, p \in ChatPrompts :
       LET stored == Append(messages, Message("user", p))
       IN  /\ system_prompt' = sp
           /\ prompt' = p
           /\ messages_for_llm' = generate_response(sp, stored, p)
           /\ messages' = stored
  /\ chat_pc' = "raised"
  /\ UNCHANGED <<searchvars, dashvars>>

\* chat_llm.py:72-89: a submitted prompt in a run that streamlit stops
\* because a rerun was requested meanwhile: the user message is stored
\* (chat_llm.py:74) and the run ends inside a streamlit call, either before
\* the backend call (chat_llm.py:77-82) or after the backend returned
\* (chat_llm.py:89); the assistant message is not stored
ChatTurnInterrupted ==
  /\ Len(messages) + 1 <= MaxMessages
  /\ \E sp \in SystemPrompts, p \in ChatPrompts, called \in BOOLEAN :
       LET stored == Append(messages, Message("user", p))
       IN  /\ system_prompt' = sp
           /\ prompt' = p
           /\ messages_for_llm' = IF called THEN generate_response(sp, stored, p) ELSE <<>>
           /\ messages' = stored
  /\ chat_pc' = "interrupted"
  /\ UNCHANGED <<searchvars, dashvars>>

(***************************************************************************)
(* The prompt suggestions (src/smart_searc.py).                            *)
(***************************************************************************)
SUGGESTION_CAP == 5
SAMPLE_SIZE == 3

\* the fallback table of smart_searc.py:39-52
FallbackPrompts ==
  [general |-> <<"What is the weather today?", "How to make a cake?",
                 "Latest tech news", "Best restaurants nearby">>,
   tech    |-> <<"How to use Python with Streamlit?", "What is AI?",
                 "Latest JavaScript frameworks", "Cloud computing trends 2023">>]

\* tables that prompts.json can hold (smart_searc.py:9-14, 36)
PromptTables ==
  { FallbackPrompts,
    [general |-> <<"How to bake bread", "Show me the news", "How to tie a tie",
                   "How to learn Go", "How to save money", "How to sleep well",
                   "How to read faster">>,
     tech    |-> <<"How to use Git">>],
    [tech    |-> <<"What is AI?", "What is Rust?">>],
    [general |-> <<>>, tech |-> <<>>] }

SearchInputs == {"", " \f ", " Latest ", "how", "WHAT IS", "python", "\tAI\n", "zzz"}

\* PROMPTS.get(key, [])
PromptsGet(table, key) == IF key \in DOMAIN table THEN table[key] ELSE <<>>

RECURSIVE MatchFrom(_, _, _)
\* the loops of smart_searc.py:114-116 and 119-121 from position n on
MatchFrom(list, text, n) ==
  IF n > Len(list) THEN <<>>
  ELSE (IF StrIn(text, StrLower(list[n])) THEN <<list[n]>> ELSE <<>>)
         \o MatchFrom(list, text, n + 1)

\* list[:k]
Take(list, k) == SubSeq(list, 1, Min(k, Len(list)))

\* the lists random.sample(list, k) can return
RandomSamples(list, k) ==
  { [n \in 1..k |-> list[f[n]]] :
      f \in {g \in [1..k -> 1..Len(list)] :
               \A a, b \in 1..k : a # b => g[a] # g[b]} }

\* variant that collects the matches of both lists at once
get_suggested_prompts_merged(table, text) ==
  LET t == StrLower(StrStrip(text))
      all_prompts == PromptsGet(table, "general") \o PromptsGet(table, "tech")
      matched == MatchFrom(all_prompts, t, 1)
  IN  IF t = "" THEN {<<>>}
      ELSE IF matched # <<>> THEN {Take(matched, SUGGESTION_CAP)}
      ELSE IF all_prompts = <<>> THEN {<<>>}
      ELSE {Take(smp, SUGGESTION_CAP) :
              smp \in RandomSamples(all_prompts, Min(SAMPLE_SIZE, Len(all_prompts)))}

\* get_suggested_prompts (smart_searc.py:108-127): the set of lists a call can
\* return, more than one only when random.sample is reached
get_suggested_prompts(table, text) ==
  LET t == StrLower(StrStrip(text))
      general == MatchFrom(PromptsGet(table, "general"), t, 1)
      matched == IF general # <<>> THEN general
                 ELSE MatchFrom(PromptsGet(table, "tech"), t, 1)
      all_prompts == PromptsGet(table, "general") \o PromptsGet(table, "tech")
  IN  IF t = "" THEN {<<>>}
      ELSE IF matched # <<>> THEN {Take(matched, SUGGESTION_CAP)}
      ELSE IF all_prompts = <<>> THEN {<<>>}
      ELSE {Take(smp, SUGGESTION_CAP) :
              smp \in RandomSamples(all_prompts, Min(SAMPLE_SIZE, Len(all_prompts)))}

SearchOff ==
  /\ PROMPTS = FallbackPrompts
  /\ input_text = ""
  /\ suggestions = <<>>
  /\ search_pc = "idle"

\* one call of get_suggested_prompts
CallGetSuggestedPrompts ==
  /\ \E text \in SearchInputs :
       /\ input_text' = text
       /\ suggestions' \in get_suggested_prompts(PROMPTS, text)
  /\ search_pc' = "returned"
  /\ UNCHANGED <<PROMPTS, chatvars, dashvars>>

Init == ClassifierOff /\ DashInit /\ ChatInit /\ SearchOff

Next ==
  \/ RunEarlyReturn
  \/ RunFetch
  \/ RunCached
  \/ ClassifyArticle
  \/ ClassifyScorerRaise
  \/ AggregateCounts
  \/ AggregateKeyError
  \/ NoArticleSection
  \/ FilterAndDisplay
  \/ FilterKeyError
  \/ EndRun

\* the dashboard session: any sequence of script runs
Spec == Init /\ [][Next]_vars

InitClassify ==
  /\ c_text \in Texts
  /\ c_sdgs = {}
  /\ c_score = [raises |-> FALSE, polarity |-> 0, subjectivity |-> 0]
  /\ c_sentiment = NoResult
  /\ c_pc = "start"
  /\ DashInit
  /\ ChatInit
  /\ SearchOff

NextClassify ==
  \/ CallMapSnippet
  \/ CallAnalyzeSentiment
  \/ CallAnalyzeSentimentRaise

\* one classification of one text: map_snippet_to_sdgs, then analyze_sentiment
SpecClassify == InitClassify /\ [][NextClassify]_vars

InitChat == ClassifierOff /\ DashInit /\ ChatInit /\ SearchOff

NextChat ==
  \/ ChatRerun
  \/ ClearConversation
  \/ ChatTurn
  \/ ChatTurnRaise
  \/ ChatTurnInterrupted

\* the chat session: any sequence of script runs
SpecChat == InitChat /\ [][NextChat]_vars

InitSearch ==
  /\ ClassifierOff
  /\ DashInit
  /\ ChatInit
  /\ PROMPTS \in PromptTables
  /\ input_text = ""
  /\ suggestions = <<>>
  /\ search_pc = "idle"

NextSearch == CallGetSuggestedPrompts

\* calls of get_suggested_prompts on one loaded prompt table
SpecSearch == InitSearch /\ [][NextSearch]_vars

(***************************************************************************)
(* Properties of the classifier, checked under SpecClassify.               *)
(***************************************************************************)
\* keyword k occurs in text t at some position
OccursIn(k, t) ==
  \E i \in 1..(Len(t) - Len(k) + 1) : SubSeq(t, i, i + Len(k) - 1) = k

\* C1: a category is in the set map_snippet_to_sdgs returns for a text if and
\* only if one of its keywords occurs as a substring of the lowercased text;
\* every matching category is kept and no other value is returned
C1_CategoryIffKeywordOccurs ==
  c_pc = "mapped" =>
    /\ c_sdgs \subseteq SdgNames
    /\ \A n \in 1..Len(SDG_KEYWORDS) :
         (SDG_KEYWORDS[n].sdg \in c_sdgs)
           <=> \E j \in 1..Len(SDG_KEYWORDS[n].keywords) :
                 OccursIn(SDG_KEYWORDS[n].keywords[j], StrLower(c_text))

\* "Inclusion " carries a keyword of two categories, in mixed case
C1_Witness ==
  /\ c_pc = "mapped"
  /\ c_text = "Inclusion "
  /\ c_sdgs = {"Gender Equality (SDG5)", "Reduced Inequalities (SDG10)"}

\* C2: the label is Positive exactly above 0.20, Negative exactly below
\* -0.20 and Neutral otherwise; the comparisons are strict at 0.20 and -0.20
C2_SentimentThresholds ==
  c_pc = "analyzed" =>
    LET p == c_score.polarity
        label == c_sentiment.sentiment
    IN  /\ label \in {"Positive", "Neutral", "Negative"}
        /\ (label = "Positive") <=> (p > 20)
        /\ (label = "Negative") <=> (p < -20)
        /\ (label = "Neutral") <=> (p >= -20 /\ p <= 20)
        /\ (p = 21 => label = "Positive")
        /\ (p = 20 => label = "Neutral")
        /\ (p = -21 => label = "Negative")
        /\ (p = -20 => label = "Neutral")
        /\ c_sentiment.polarity = p

\* the boundary 0.20 itself is Neutral
C2_Witness ==
  /\ c_pc = "analyzed"
  /\ c_score.polarity = 20
  /\ c_sentiment.sentiment = "Neutral"

\* C9: when the scorer fails, analyze_sentiment returns Neutral with
\* polarity 0.0 and subjectivity 0.0 instead of propagating the failure
C9_ScorerFailureRecovered ==
  (c_pc \in {"analyzed", "raised"} /\ c_score.raises) =>
    /\ c_pc = "analyzed"
    /\ c_sentiment = [sentiment |-> "Neutral", polarity |-> 0, subjectivity |-> 0]

(***************************************************************************)
(* Properties of the aggregation and the filter, checked under Spec.       *)
(***************************************************************************)
\* the counts of this run have been built
AggregateDone ==
  rendered \in {"chart", "no_sdg_warning", "articles", "no_match_warning"}

\* the list comprehension of this run has completed
FilterDone ==
  rendered \in {"articles", "no_match_warning"} \/ error = "KeyError display"

\* C3: the count of every category of the aggregate is the number of stored
\* articles whose matched set contains it
C3_CountsExact ==
  AggregateDone =>
    \A C \in DOMAIN sdg_counts :
      sdg_counts[C] = Cardinality({ n \in 1..Len(articles) : C \in articles[n].sdgs })

\* two articles share a category and one of them matches another one too
C3_Witness ==
  /\ AggregateDone
  /\ \E C, D \in DOMAIN sdg_counts : sdg_counts[C] = 2 /\ sdg_counts[D] = 1
  /\ \E n \in 1..Len(articles) : Cardinality(articles[n].sdgs) >= 2

Injections(n) == { f \in [1..n -> 1..n] : \A i, j \in 1..n : f[i] = f[j] => i = j }

Permuted(arts, f) == [i \in 1..Len(arts) |-> arts[f[i]]]

\* C4: counting any permutation of the stored articles gives the same mapping
C4_OrderIndependent ==
  AggregateDone =>
    \A f \in Injections(Len(articles)) :
      CountSdgs(Permuted(articles, f)) = sdg_counts

\* two articles with different non-empty matched sets have been counted
C4_Witness ==
  /\ AggregateDone
  /\ Len(articles) >= 2
  /\ articles[1].sdgs # {} /\ articles[2].sdgs # {}
  /\ articles[1].sdgs # articles[2].sdgs

\* C5: a category is a key of the aggregate only if some article matched it,
\* every stored count is at least 1, and articles that match nothing (such as
\* "" and "No summary available.") give the empty mapping
C5_Sparse ==
  AggregateDone =>
    /\ \A C \in DOMAIN sdg_counts :
         /\ sdg_counts[C] >= 1
         /\ \E n \in 1..Len(articles) : C \in articles[n].sdgs
    /\ (\A n \in 1..Len(articles) : articles[n].sdgs = {}) => DOMAIN sdg_counts = {}
    /\ (\A n \in 1..Len(articles) :
          articles[n].summary \in {"", NO_SUMMARY})
         => DOMAIN sdg_counts = {}

\* the scenario of the two summaries without any keyword
C5_Witness ==
  /\ AggregateDone
  /\ Len(articles) = 2
  /\ articles[1].summary = "" /\ articles[2].summary = NO_SUMMARY
  /\ DOMAIN sdg_counts = {}

\* C6: an article is in the filtered list if and only if it passes the
\* category filter and the sentiment filter
C6_FilterMembership ==
  FilterDone =>
    \A n \in 1..Len(articles) :
      (\E m \in 1..Len(filtered_articles) : filtered_articles[m] = articles[n])
        <=> /\ (selected_sdgs = {} \/ selected_sdgs \cap articles[n].sdgs # {})
            /\ (sentiment_filter = "All"
                  \/ articles[n].sentiment.sentiment = sentiment_filter)

\* one article passes only the category filter, the other passes both
C6_Witness ==
  /\ FilterDone
  /\ Len(articles) = 2
  /\ Len(filtered_articles) = 1
  /\ selected_sdgs # {} /\ sentiment_filter # "All"
  /\ \A n \in 1..2 : selected_sdgs \cap articles[n].sdgs # {}

\* C7: the filtered list is a subsequence of the stored articles
C7_Subsequence ==
  FilterDone =>
    \E f \in [1..Len(filtered_articles) -> 1..Len(articles)] :
      /\ \A i, j \in 1..Len(filtered_articles) : i < j => f[i] < f[j]
      /\ \A i \in 1..Len(filtered_articles) : filtered_articles[i] = articles[f[i]]

\* two different articles are kept
C7_Witness ==
  /\ FilterDone
  /\ Len(filtered_articles) = 2
  /\ filtered_articles[1] # filtered_articles[2]
  /\ selected_sdgs # {}

\* C8: filtering the filtered list again with the same arguments changes
\* nothing, and with no category selected and sentiment All the whole list
\* is returned
C8_IdempotentIdentity ==
  FilterDone =>
    /\ FilterArticles(filtered_articles, selected_sdgs, sentiment_filter)
         = filtered_articles
    /\ (selected_sdgs = {} /\ sentiment_filter = "All")
         => filtered_articles = articles

\* the filter removed one article and kept another
C8_Witness ==
  /\ FilterDone
  /\ Len(filtered_articles) = 1
  /\ Len(articles) = 2
  /\ sentiment_filter # "All"

(***************************************************************************)
(* The empty text, the scenario text and the size of the table.            *)
(***************************************************************************)
\* C11: classifying the empty string succeeds with the empty category set
\* and, when the scorer returns zero scores, Neutral with polarity 0.0 and
\* subjectivity 0.0; no keyword of the table is the empty string
C11_EmptyText ==
  /\ \A n \in 1..Len(SDG_KEYWORDS) :
       \A j \in 1..Len(SDG_KEYWORDS[n].keywords) : SDG_KEYWORDS[n].keywords[j] # ""
  /\ (c_text = "" /\ c_pc # "start") => c_sdgs = {}
  /\ (c_text = "" /\ c_pc # "start" /\ ~c_score.raises
        /\ c_score.polarity = 0 /\ c_score.subjectivity = 0)
       => (c_pc = "analyzed" =>
             c_sentiment = [sentiment |-> "Neutral", polarity |-> 0, subjectivity |-> 0])

\* the empty string has been classified, the scorer returning zero scores
C11_Witness ==
  /\ c_text = ""
  /\ c_pc = "analyzed"
  /\ c_score = [raises |-> FALSE, polarity |-> 0, subjectivity |-> 0]
  /\ c_sdgs = {}
  /\ c_sentiment.sentiment = "Neutral"

ScenarioText == "The company invested in renewable energy and improved gender equality."

\* C12: the scenario text is classified as exactly Affordable and Clean
\* Energy (SDG7) and Gender Equality (SDG5)
C12_ScenarioCategories ==
  \A n \in 1..Len(articles) :
    ("sdgs" \in DOMAIN articles[n] /\ articles[n].summary = ScenarioText)
      => articles[n].sdgs = {"Affordable and Clean Energy (SDG7)", "Gender Equality (SDG5)"}

\* an article with the scenario text as summary has been classified
C12_Witness ==
  \E n \in 1..Len(articles) :
    /\ "sentiment" \in DOMAIN articles[n]
    /\ articles[n].summary = ScenarioText
    /\ Cardinality(articles[n].sdgs) = 2

\* C13: the table registers 17 categories, each with a non-empty keyword
\* list and a color, and these are the values a classification can return
C13_SeventeenCategories ==
  /\ c_sdgs \subseteq SdgNames
  /\ Len(SDG_KEYWORDS) = 17
  /\ Cardinality(SdgNames) = 17
  /\ \A n \in 1..Len(SDG_KEYWORDS) :
       SDG_KEYWORDS[n].keywords # <<>> /\ SDG_KEYWORDS[n].color # ""

(***************************************************************************)
(* Caching of the classified articles, refresh and the scraper, checked    *)
(* under Spec.                                                             *)
(***************************************************************************)
\* C15, as stated: with a non-empty stored list and Refresh News not pressed a
\* rerun does not fetch, nothing outside the fetch branch changes the stored
\* articles, and every such rerun has rebuilt the category counts
C15_CachedAndCountsOnEveryRerun ==
  [][ /\ (pc = "idle" /\ articles # <<>> /\ ~refresh') => ~fetched'
      /\ ~fetched' => articles' = articles
      /\ (pc' = "done" /\ ~fetched' /\ articles' # <<>>) => AggregateDone'
    ]_vars

\* C15, amended: with a non-empty stored list and Refresh News not pressed a
\* rerun does not fetch and nothing outside the fetch branch changes the
\* stored articles; every such rerun that has a company name entered has
\* rebuilt the category counts from the stored articles when it completes,
\* counts exist only in a run with a company name, and none are kept from
\* one run to the next
C15_CachedAndCountsRebuilt ==
  [][ /\ (pc = "idle" /\ articles # <<>> /\ ~refresh') => ~fetched'
      /\ ~fetched' => articles' = articles
      /\ (pc' = "done" /\ ~fetched' /\ articles' # <<>> /\ company' # "") =>
           (AggregateDone' /\ sdg_counts' = CountSdgs(articles'))
      /\ AggregateDone' => (company' # "" /\ sdg_counts' = CountSdgs(articles'))
      /\ pc = "idle" => (sdg_counts = <<>> /\ ~AggregateDone)
    ]_vars

\* a rerun with a company name over stored, classified articles has
\* completed without fetching and has rebuilt non-empty counts
C15_Witness ==
  /\ pc = "done"
  /\ ~fetched
  /\ company # ""
  /\ articles # <<>>
  /\ \A n \in 1..Len(articles) : "sentiment" \in DOMAIN articles[n]
  /\ AggregateDone
  /\ DOMAIN sdg_counts # {}
  /\ sdg_counts = CountSdgs(articles)

\* C16: whenever a run with a company name aggregates or displays stored
\* articles, they were fetched for that company
C16_RefreshedOnCompanyChange ==
  (pc \in {"aggregate", "filter", "done"} /\ company # "" /\ articles # <<>>)
    => fetched_for = company

\* C19: an invocation of the scraper issues exactly one request, and on a
\* status other than 200 its result is the empty list
C19_OneRequestNoRetry ==
  /\ fetched => http_requests = 1
  /\ ~fetched => http_requests = 0
  /\ (fetched /\ http_status # 200) => (articles = <<>> /\ pc # "classify")

\* Refresh News was pressed and the one response had status 503
C19_Witness ==
  /\ fetched
  /\ refresh
  /\ http_status = 503
  /\ http_requests = 1
  /\ articles = <<>>

\* C20: whenever the aggregation or the filter and display code is about to
\* read the stored articles, every article has "sdgs" and "sentiment"
C20_FieldsPresentWhenRead ==
  (pc \in {"aggregate", "filter"} /\ company # "" /\ articles # <<>>)
    => \A n \in 1..Len(articles) :
         "sdgs" \in DOMAIN articles[n] /\ "sentiment" \in DOMAIN articles[n]

(***************************************************************************)
(* The chat app, checked under SpecChat.                                   *)
(***************************************************************************)
\* the stored history as it was before the prompt of the last run was handled
HistoryBeforePrompt ==
  SubSeq(messages, 1, Len(messages) - (IF chat_pc = "answered" THEN 2 ELSE 1))

\* C17: for a submitted prompt the list handed to the backend is the system
\* prompt, then the history that preceded the prompt in its order, then the
\* new user message, which occurs exactly once
C17_SentListExact ==
  (chat_pc \in {"answered", "raised", "interrupted"} /\ messages_for_llm # <<>>) =>
    /\ messages_for_llm =
         <<Message("system", system_prompt)>> \o HistoryBeforePrompt
           \o <<Message("user", prompt)>>
    /\ Cardinality({n \in 1..Len(messages_for_llm) :
                      messages_for_llm[n] = Message("user", prompt)})
         = 1 + Cardinality({n \in 1..Len(HistoryBeforePrompt) :
                              HistoryBeforePrompt[n] = Message("user", prompt)})

(***************************************************************************)
(* The prompt suggestions, checked under SpecSearch.                       *)
(***************************************************************************)
IsBlank(text) == \A i \in 1..Len(text) : IsSpace(SubSeq(text, i, i))

\* the prompts of a list that contain t when lowercased, in the list's order
Matching(list, t) == SelectSeq(list, LAMBDA p : OccursIn(t, StrLower(p)))

\* C18: blank input gives the empty list; otherwise the general matches in
\* table order if there are any, else the tech matches if there are any, else
\* at most 3 prompts drawn from the table; never more than 5 entries
C18_TierOrderAndCap ==
  search_pc = "returned" =>
    LET t == StrLower(StrStrip(input_text))
        general == Matching(PromptsGet(PROMPTS, "general"), t)
        tech == Matching(PromptsGet(PROMPTS, "tech"), t)
        all_prompts == PromptsGet(PROMPTS, "general") \o PromptsGet(PROMPTS, "tech")
    IN  /\ Len(suggestions) <= 5
        /\ IsBlank(input_text) => suggestions = <<>>
        /\ (~IsBlank(input_text) /\ general # <<>>) =>
             /\ Len(suggestions) = Min(5, Len(general))
             /\ suggestions = SubSeq(general, 1, Len(suggestions))
        /\ (~IsBlank(input_text) /\ general = <<>> /\ tech # <<>>) =>
             /\ Len(suggestions) = Min(5, Len(tech))
             /\ suggestions = SubSeq(tech, 1, Len(suggestions))
        /\ (~IsBlank(input_text) /\ general = <<>> /\ tech = <<>>) =>
             /\ Len(suggestions) <= 3
             /\ \A n \in 1..Len(suggestions) :
                  \E m \in 1..Len(all_prompts) : suggestions[n] = all_prompts[m]
        /\ (\E n \in 1..Len(suggestions) :
              \E m \in 1..Len(PromptsGet(PROMPTS, "tech")) :
                /\ suggestions[n] = PromptsGet(PROMPTS, "tech")[m]
                /\ \A k \in 1..Len(PromptsGet(PROMPTS, "general")) :
                     suggestions[n] # PromptsGet(PROMPTS, "general")[k])
             => general = <<>>

\* seven general prompts and one tech prompt match, five general ones are returned
C18_Witness ==
  /\ search_pc = "returned"
  /\ input_text = "how"
  /\ Len(Matching(PromptsGet(PROMPTS, "general"), "how")) > 5
  /\ Matching(PromptsGet(PROMPTS, "tech"), "how") # <<>>
  /\ Len(suggestions) = 5

(***************************************************************************)
(* The stored chat history, checked under SpecChat.                        *)
(***************************************************************************)
\* C21: between runs the stored history alternates user and assistant
\* messages starting with a user message and has even length, also after a
\* run whose backend call raised; Clear Conversation leaves it empty
C21_HistoryAlternates ==
  /\ \A n \in 1..Len(messages) :
       messages[n].role = (IF n % 2 = 1 THEN "user" ELSE "assistant")
  /\ Len(messages) % 2 = 0
  /\ chat_pc = "cleared" => messages = <<>>

(***************************************************************************)
(* The default filter values, checked under Spec.                          *)
(***************************************************************************)
\* the stored articles with at least one matched SDG, in stored order
WithSdg(arts) == SelectSeq(arts, LAMBDA art : art.sdgs # {})

\* C22: once the filter section has run with every present SDG selected and
\* sentiment All, the displayed articles are the stored articles with at
\* least one SDG; an article without SDG is in the filtered list only under
\* an empty selection; a run over stored articles none of which has an SDG
\* renders neither the filter nor the list
C22_DefaultFilterDisplay ==
  /\ (FilterDone /\ selected_sdgs = PresentSdgs(articles) /\ sentiment_filter = "All") =>
       /\ rendered = "articles"
       /\ filtered_articles = WithSdg(articles)
  /\ FilterDone =>
       \A n \in 1..Len(filtered_articles) :
         filtered_articles[n].sdgs = {} => selected_sdgs = {}
  /\ (pc = "done" /\ company # "" /\ articles # <<>>
        /\ \A n \in 1..Len(articles) :
             "sdgs" \in DOMAIN articles[n] /\ articles[n].sdgs = {}) =>
       /\ rendered = "no_sdg_warning"
       /\ filtered_articles = <<>>

\* the same statement over runs whose stored articles all carry "sentiment"
C22_DefaultFilterDisplayClassified ==
  (\A n \in 1..Len(articles) : "sentiment" \in DOMAIN articles[n]) =>
    C22_DefaultFilterDisplay

====
